---- MODULE Spec2Model ----
(***************************************************************************)
(* A model of the ElizaOS Cloud plugin (src/src/index.ts): the settings    *)
(* resolution helpers, the tokenizer handlers and the model-invocation     *)
(* handlers, each handler split at its awaited upstream request.           *)
(*                                                                         *)
(* JavaScript values are modelled as strings and records.  The two absent  *)
(* values, undefined and null, are the markers Undefined and NullV.        *)
(***************************************************************************)
EXTENDS Integers, Sequences, FiniteSets, TLC

VARIABLES
  rt,     \* the host runtime's settings: what runtime.getSetting(key) returns
  env,    \* process.env
  look,   \* the last getSetting call made on behalf of the host and its result
  tok,    \* the tokenizer handlers' last encode / decode call
  inv,    \* the model-invocation handler call in progress (or the idle marker)
  initCall, \* the plugin's init call and its background key validation
  calls   \* handler calls in flight at the same time, one per caller

vars == <<rt, env, look, tok, inv, initCall, calls>>

----------------------------------------------------------------------------
(* Values *)

Undefined == "<undefined>"
NullV == "<null>"
\* The boolean true, which the host's getSetting may hand back for a setting.
TrueV == "<true>"

\* Numbers are records, so that NaN is a number that equals no integer.
Num(n) == [type |-> "number", nan |-> FALSE, n |-> n]
NaN == [type |-> "number", nan |-> TRUE, n |-> 0]

\* x == null, the test behind ?? and ?.
Nullish(v) == v \in {Undefined, NullV}

\* The ?? operator.
Coalesce(a, b) == IF Nullish(a) THEN b ELSE a

\* JavaScript truthiness of a string-or-absent value: if (v), !v, v || d.
Truthy(v) == ~Nullish(v) /\ v # ""

\* The || operator.
OrElse(a, b) == IF Truthy(a) THEN a ELSE b

\* The configuration keys the plugin and its SDK client read.
Keys ==
  { "ELIZAOS_API_KEY", "ELIZAOS_BASE_URL",
    "ELIZAOS_EMBEDDING_API_KEY", "ELIZAOS_EMBEDDING_URL",
    "ELIZAOS_EMBEDDING_MODEL", "ELIZAOS_EMBEDDING_DIMENSIONS",
    "ELIZAOS_SMALL_MODEL", "SMALL_MODEL", "ELIZAOS_LARGE_MODEL", "LARGE_MODEL",
    "ELIZAOS_IMAGE_DESCRIPTION_MODEL",
    "ELIZAOS_IMAGE_DESCRIPTION_MAX_TOKENS", "OPENAI_IMAGE_DESCRIPTION_MAX_TOKENS",
    "ELIZAOS_EXPERIMENTAL_TELEMETRY",
    "ELIZAOS_TTS_MODEL", "ELIZAOS_TTS_VOICE", "ELIZAOS_TTS_INSTRUCTIONS",
    "OPENAI_API_KEY" }

AllUnset == [k \in Keys |-> Undefined]

----------------------------------------------------------------------------
(* Settings resolution: src/src/index.ts 31-148 *)

\* A plausible slip: environment before runtime, and || in place of ??.
getSettingEnvFirst(key, defaultValue) ==
  OrElse(OrElse(env[key], rt[key]), defaultValue)

\* return runtime.getSetting(key) ?? process.env[key] ?? defaultValue;
getSetting(key, defaultValue) ==
  Coalesce(Coalesce(rt[key], env[key]), defaultValue)

DefaultBaseURL == "http://localhost:3001/api/v1"

getBaseURL == getSetting("ELIZAOS_BASE_URL", DefaultBaseURL)

getEmbeddingBaseURL ==
  LET embeddingURL == getSetting("ELIZAOS_EMBEDDING_URL", Undefined)
  IN  IF Truthy(embeddingURL) THEN embeddingURL ELSE getBaseURL

getApiKey == getSetting("ELIZAOS_API_KEY", Undefined)

\* A plausible slip: the embedding key is ignored.
getEmbeddingApiKeyGeneral == getApiKey

getEmbeddingApiKey ==
  LET embeddingApiKey == getSetting("ELIZAOS_EMBEDDING_API_KEY", Undefined)
  IN  IF Truthy(embeddingApiKey) THEN embeddingApiKey ELSE getApiKey

\* A plausible slip: the unprefixed key is consulted first.
getSmallModelUnprefixedFirst ==
  Coalesce(getSetting("SMALL_MODEL", Undefined),
           getSetting("ELIZAOS_SMALL_MODEL", "gpt-4o"))

getSmallModel ==
  Coalesce(getSetting("ELIZAOS_SMALL_MODEL", Undefined),
           getSetting("SMALL_MODEL", "gpt-4o"))

getLargeModel ==
  Coalesce(getSetting("ELIZAOS_LARGE_MODEL", Undefined),
           getSetting("LARGE_MODEL", "gpt-5-mini"))

getImageDescriptionModel ==
  Coalesce(getSetting("ELIZAOS_IMAGE_DESCRIPTION_MODEL", "gpt-4o"), "gpt-4o")

\* String(setting).toLowerCase() over the values the model draws.
ToLowerCase(s) ==
  CASE s \in {"TRUE", "True", "true"} -> "true"
    [] s \in {"FALSE", "False", "false"} -> "false"
    [] OTHER -> s

\* String(setting)
StringOf(v) == IF v = TrueV THEN "true" ELSE v

\* A plausible slip: telemetry is on unless the setting says 'false'.
getExperimentalTelemetryOptOut ==
  ToLowerCase(StringOf(getSetting("ELIZAOS_EXPERIMENTAL_TELEMETRY", "true"))) # "false"

getExperimentalTelemetry ==
  ToLowerCase(StringOf(getSetting("ELIZAOS_EXPERIMENTAL_TELEMETRY", "false"))) = "true"

----------------------------------------------------------------------------
(* The host reading and changing settings: the specification SpecSettings  *)

ProbeKeys == {"ELIZAOS_API_KEY", "ELIZAOS_SMALL_MODEL", "SMALL_MODEL"}
RuntimeValues == {Undefined, NullV, "", "from-runtime"}
EnvValues == {Undefined, "", "from-env"}
Defaults == {Undefined, "hardcoded"}

NoLookup == [key |-> Undefined, default |-> Undefined, result |-> Undefined, made |-> FALSE]
NoTok == [pc |-> "idle"]
Idle ==
  [pc |-> "idle", handler |-> Undefined, params |-> Undefined,
   dimension |-> 0, requests |-> <<>>, responses |-> <<>>,
   result |-> [type |-> "none"], error |-> [origin |-> "none", detail |-> {}],
   events |-> <<>>]
\* init has not been called: promise is the state of the promise init returns.
NotLoaded ==
  [pc |-> "unloaded", promise |-> "none", requests |-> <<>>, responses |-> <<>>,
   warnings |-> <<>>]

\* The number of callers that may have a handler call in flight at once.
MaxCalls == 2
Callers == 1..MaxCalls

\* No caller has a call in flight: call is the caller's handler call,
\* answered the responses the upstream API gave to that call's requests.
NoCalls == [s \in Callers |-> [call |-> Idle, answered |-> <<>>]]

\* The host stores a setting (runtime settings belong to the host).
HostSetRuntime(k, v) ==
  /\ rt' = [rt EXCEPT ![k] = v]
  /\ look' = NoLookup
  /\ UNCHANGED <<env, tok, inv, initCall, calls>>

\* The process environment is set or unset.
HostSetEnv(k, v) ==
  /\ env' = [env EXCEPT ![k] = v]
  /\ look' = NoLookup
  /\ UNCHANGED <<rt, tok, inv, initCall, calls>>

\* One call getSetting(runtime, key, defaultValue).
ResolveSetting(k, d) ==
  /\ look' = [key |-> k, default |-> d, result |-> getSetting(k, d), made |-> TRUE]
  /\ UNCHANGED <<rt, env, tok, inv, initCall, calls>>

InitSettings ==
  /\ rt = AllUnset
  /\ env = AllUnset
  /\ look = NoLookup
  /\ tok = NoTok
  /\ inv = Idle
  /\ initCall = NotLoaded
  /\ calls = NoCalls

NextSettings ==
  \/ \E k \in ProbeKeys, v \in RuntimeValues : HostSetRuntime(k, v)
  \/ \E k \in ProbeKeys, v \in EnvValues : HostSetEnv(k, v)
  \/ \E k \in ProbeKeys, d \in Defaults : ResolveSetting(k, d)

SpecSettings == InitSettings /\ [][NextSettings]_vars

\* C3: getSetting returns the runtime value whenever the runtime supplies a
\* non-null one (the empty string included), otherwise the environment value
\* when one exists, otherwise the default; a lower source never overrides a
\* higher one.
C3_Precedence ==
  look.made =>
    /\ ~Nullish(rt[look.key]) => look.result = rt[look.key]
    /\ (Nullish(rt[look.key]) /\ env[look.key] # Undefined)
          => look.result = env[look.key]
    /\ (Nullish(rt[look.key]) /\ env[look.key] = Undefined)
          => look.result = look.default

\* C3's case: the runtime supplies the empty string while the environment and
\* the default hold other values, and the lookup returned the empty string.
C3_Witness ==
  /\ look.made
  /\ rt[look.key] = ""
  /\ env[look.key] = "from-env"
  /\ look.default = "hardcoded"
  /\ look.result = ""

----------------------------------------------------------------------------
(* Tokenizer handlers: src/src/index.ts 170-194 and 531-542.               *)
(* js-tiktoken is modelled as byte-pair encoding over a small alphabet:    *)
(* each encoding is a ranked vocabulary, encode merges the adjacent pair   *)
(* of lowest rank until none is left, decode concatenates the pieces.      *)

MaxLen == 3

SpecialToken == "<|endoftext|>"
Chars == {"a", "b", SpecialToken}

RECURSIVE TextsOfLen(_)
TextsOfLen(n) ==
  IF n = 0 THEN {<<>>}
  ELSE {Append(t, c) : t \in TextsOfLen(n - 1), c \in Chars}

Texts == UNION {TextsOfLen(n) : n \in 0..MaxLen}

\* The ranked vocabularies: a token is a piece's position.
Vocab(encoding) ==
  IF encoding = "cl100k_base"
  THEN << <<"a">>, <<"b">>, <<"a", "b">>, <<"b", "a">>, <<"a", "b", "a">> >>
  ELSE << <<"b">>, <<"a">>, <<"a", "a">>, <<"a", "b">>, <<"b", "b">> >>

Rank(encoding, piece) ==
  LET v == Vocab(encoding)
  IN  IF \E i \in 1..Len(v) : v[i] = piece
      THEN CHOOSE i \in 1..Len(v) : v[i] = piece
      ELSE 0

\* encodingForModel(modelName): the encoding of a known model; an unknown
\* model name throws.
encodingForModel(modelName) ==
  CASE modelName \in {"gpt-4o", "gpt-5-mini"} -> "o200k_base"
    [] modelName \in {"gpt-4", "gpt-3.5-turbo"} -> "cl100k_base"
    [] OTHER -> Undefined

RECURSIVE BytePairMerge(_, _)
BytePairMerge(encoding, parts) ==
  LET pairs == {i \in 1..(Len(parts) - 1) :
                  Rank(encoding, parts[i] \o parts[i + 1]) # 0}
  IN  IF pairs = {} THEN parts
      ELSE LET best == CHOOSE i \in pairs :
                         \A j \in pairs :
                           LET ri == Rank(encoding, parts[i] \o parts[i + 1])
                               rj == Rank(encoding, parts[j] \o parts[j + 1])
                           IN  ri < rj \/ (ri = rj /\ i <= j)
           IN  BytePairMerge(encoding,
                 [k \in 1..(Len(parts) - 1) |->
                    IF k < best THEN parts[k]
                    ELSE IF k = best THEN parts[best] \o parts[best + 1]
                    ELSE parts[k + 1]])

\* encoding.encode(prompt), special tokens disallowed (the library default):
\* a text holding one throws.
Encode(encoding, text) ==
  IF \E i \in 1..Len(text) : text[i] = SpecialToken
  THEN [threw |-> TRUE, tokens |-> <<>>]
  ELSE LET parts == BytePairMerge(encoding, [i \in 1..Len(text) |-> <<text[i]>>])
       IN  [threw |-> FALSE,
            tokens |-> [i \in 1..Len(parts) |-> Rank(encoding, parts[i])]]

RECURSIVE Decode(_, _)
\* encoding.decode(tokens)
Decode(encoding, tokens) ==
  IF tokens = <<>> THEN <<>>
  ELSE Vocab(encoding)[Head(tokens)] \o Decode(encoding, Tail(tokens))

\* The model name the tokenizers pick: process.env only.
TokenizerModelName(model) ==
  IF model = "TEXT_SMALL"
  THEN Coalesce(Coalesce(env["ELIZAOS_SMALL_MODEL"], env["SMALL_MODEL"]), "gpt-4o")
  ELSE Coalesce(Coalesce(env["ELIZAOS_LARGE_MODEL"], env["LARGE_MODEL"]), "gpt-5-mini")

tokenizeText(model, prompt) ==
  LET encoding == encodingForModel(TokenizerModelName(model))
  IN  IF encoding = Undefined
      THEN [threw |-> TRUE, tokens |-> <<>>]
      ELSE Encode(encoding, prompt)

\* A plausible slip: detokenizeText always picks the large model's encoding.
detokenizeTextLarge(model, tokens) ==
  LET encoding == encodingForModel(TokenizerModelName("TEXT_LARGE"))
  IN  IF encoding = Undefined
      THEN [threw |-> TRUE, text |-> <<>>]
      ELSE [threw |-> FALSE, text |-> Decode(encoding, tokens)]

detokenizeText(model, tokens) ==
  LET encoding == encodingForModel(TokenizerModelName(model))
  IN  IF encoding = Undefined
      THEN [threw |-> TRUE, text |-> <<>>]
      ELSE [threw |-> FALSE, text |-> Decode(encoding, tokens)]

\* The modelType parameter's default: { modelType = TEXT_LARGE }, then ??.
ModelTypeOrLarge(modelType) ==
  IF Nullish(modelType) THEN "TEXT_LARGE" ELSE modelType

TokModelTypes == {"TEXT_SMALL", "TEXT_LARGE", Undefined}
ModelEnvValues == {Undefined, "gpt-4", "no-such-model"}
ModelKeys == {"ELIZAOS_SMALL_MODEL", "SMALL_MODEL", "ELIZAOS_LARGE_MODEL", "LARGE_MODEL"}

\* models[TEXT_TOKENIZER_ENCODE](runtime, {prompt, modelType})
TokenizerEncode(modelType, prompt) ==
  /\ tok.pc = "idle"
  /\ LET r == tokenizeText(ModelTypeOrLarge(modelType), prompt)
     IN  tok' = [pc |-> IF r.threw THEN "encode_threw" ELSE "encoded",
                 modelType |-> modelType, prompt |-> prompt, tokens |-> r.tokens,
                 decodeType |-> Undefined, text |-> <<>>,
                 modelName |-> TokenizerModelName(ModelTypeOrLarge(modelType))]
  /\ UNCHANGED <<rt, env, look, inv, initCall, calls>>

\* models[TEXT_TOKENIZER_DECODE](runtime, {tokens, modelType}) on the tokens
\* the last encode returned.
TokenizerDecode(modelType) ==
  /\ tok.pc = "encoded"
  /\ LET r == detokenizeText(ModelTypeOrLarge(modelType), tok.tokens)
     IN  tok' = [tok EXCEPT !.pc = IF r.threw THEN "decode_threw" ELSE "decoded",
                            !.decodeType = modelType,
                            !.text = r.text]
  /\ UNCHANGED <<rt, env, look, inv, initCall, calls>>

\* The caller has its answer (a value or a thrown error); the next call starts
\* from scratch: the handlers keep nothing between calls.
TokenizerDone ==
  /\ tok.pc # "idle"
  /\ tok' = NoTok
  /\ UNCHANGED <<rt, env, look, inv, initCall, calls>>

InitTok ==
  /\ rt = AllUnset
  /\ \E m \in [ModelKeys -> ModelEnvValues] :
       env = [k \in Keys |-> IF k \in ModelKeys THEN m[k] ELSE Undefined]
  /\ look = NoLookup
  /\ tok = NoTok
  /\ inv = Idle
  /\ initCall = NotLoaded
  /\ calls = NoCalls

NextTok ==
  \/ \E m \in TokModelTypes, p \in Texts : TokenizerEncode(m, p)
  \/ \E m \in TokModelTypes : TokenizerDecode(m)
  \/ TokenizerDone

SpecTok == InitTok /\ [][NextTok]_vars

\* C4: TEXT_TOKENIZER_DECODE applied to the tokens TEXT_TOKENIZER_ENCODE
\* returned for a text, with the same model type, returns exactly that text.
C4_RoundTrip ==
  (tok.pc = "decoded" /\ tok.decodeType = tok.modelType) => tok.text = tok.prompt

\* C4's case: a text of several characters that the small model's encoding
\* (cl100k_base here, o200k_base for the large model) merges into fewer
\* tokens, decoded with the same model type.
C4_Witness ==
  /\ tok.pc = "decoded"
  /\ tok.modelType = "TEXT_SMALL"
  /\ tok.decodeType = "TEXT_SMALL"
  /\ TokenizerModelName("TEXT_SMALL") = "gpt-4"
  /\ TokenizerModelName("TEXT_LARGE") = "gpt-5-mini"
  /\ Len(tok.prompt) = 3
  /\ Len(tok.tokens) < Len(tok.prompt)
  /\ tok.text = tok.prompt

----------------------------------------------------------------------------
(* Model-invocation handlers: src/src/index.ts 199-346 and 421-870.        *)
(* A call is the record inv: pc is "awaiting" while a request is in        *)
(* flight and "returned" or "thrown" once the handler's promise settles;   *)
(* requests and events list what the call sent upstream and to the host.   *)

\* VECTOR_DIMS of @elizaos/core.
VECTOR_DIMS == {384, 512, 768, 1024, 1536, 3072}

\* Number.parseInt(s, 10) over the setting values the model draws: leading
\* digits are read, anything else gives NaN.
ParseInt(s) ==
  CASE s = "1536" -> Num(1536)
    [] s = "8192" -> Num(8192)
    [] s = "384" -> Num(384)
    [] s = "999" -> Num(999)
    [] s = "1024" -> Num(1024)
    [] s = "2048" -> Num(2048)
    [] s = "512px" -> Num(512)
    [] OTHER -> NaN

\* text.trim() over the texts the model draws.
Trim(s) == IF s \in {"", "   "} THEN "" ELSE s

(* The values a handler returns, each a record tagged with its type. *)
UndefinedValue == [type |-> "undefined"]

StringValue(s) == [type |-> "string", value |-> s]

\* A parsed JSON value or a stream handed back as it came.
DataValue(tag) == [type |-> "data", value |-> tag]

\* Array(n).fill(0) with element 0 set to tenths/10.
SentinelVector(n, tenths) ==
  [type |-> "vector", length |-> n, first |-> tenths, rest |-> "zeros"]

\* An embedding the upstream API computed: no sentinel (first is 0).
UpstreamVector(n) == [type |-> "vector", length |-> n, first |-> 0, rest |-> "data"]

\* body.field: undefined when the body lacks the field.
Field(resp) == IF resp.data = Undefined THEN UndefinedValue ELSE DataValue(resp.data)

DefaultImagePrompt ==
  "Please analyze this image and provide a title and detailed description."

Request(path, baseURL, apiKey, model, input) ==
  [path |-> path, baseURL |-> baseURL, apiKey |-> apiKey, model |-> model,
   input |-> input, maxTokens |-> UndefinedValue, telemetry |-> Undefined]

\* new Error(...): where it was raised and the upstream texts its message embeds.
Err(origin, detail) == [origin |-> origin, detail |-> detail]

Call(h, p) == [Idle EXCEPT !.handler = h, !.params = p]

Return(i, value) == [i EXCEPT !.pc = "returned", !.result = value]

Throw(i, e) == [i EXCEPT !.pc = "thrown", !.error = e]

\* await fetch(...): the request leaves and the handler waits.
Fetch(i, req) == [i EXCEPT !.pc = "awaiting", !.requests = Append(@, req)]

\* runtime.emitEvent(EventType.MODEL_USED, {provider, type, prompt, tokens})
emitModelUsageEvent(i, type, prompt, usage) ==
  [i EXCEPT !.events = Append(@, [event |-> "MODEL_USED", provider |-> "elizaos",
                                  type |-> type, prompt |-> prompt, tokens |-> usage])]

(* Upstream responses.  kind "network_error" is a rejected fetch; otherwise *)
(* ok / status / statusText are the HTTP status line, json says whether the *)
(* body parses as JSON, data is the field the handler reads from the body   *)
(* (Undefined when the body lacks it) and usage whether the body carries a  *)
(* usage object; length is the length of an embedding in the body.         *)
NetworkError ==
  [kind |-> "network_error", ok |-> FALSE, status |-> "", statusText |-> "",
   json |-> FALSE, data |-> Undefined, usage |-> FALSE, length |-> 0]

HttpError(status, statusText) ==
  [kind |-> "http", ok |-> FALSE, status |-> status, statusText |-> statusText,
   json |-> TRUE, data |-> Undefined, usage |-> FALSE, length |-> 0]

HttpOk(json, data, usage) ==
  [kind |-> "http", ok |-> TRUE, status |-> "200", statusText |-> "OK",
   json |-> json, data |-> data, usage |-> usage, length |-> 0]

Failures ==
  {NetworkError, HttpError("401", "Unauthorized"),
   HttpError("500", "Internal Server Error")}

Received(i, resp) == [i EXCEPT !.responses = Append(@, resp)]

----------------------------------------------------------------------------
(* TEXT_EMBEDDING: src/src/index.ts 422-530 *)

EmbeddingTexts == {"", "   ", "Hello, world!"}

EmbeddingParams ==
  {[kind |-> "null", text |-> Undefined]}
    \cup {[kind |-> "string", text |-> t] : t \in EmbeddingTexts}
    \cup {[kind |-> "object", text |-> t] : t \in EmbeddingTexts \cup {Undefined}}

\* The lengths of the embeddings the upstream API may answer with.
UpstreamDims == {384, 1536}

EmbeddingResponses ==
  Failures
    \cup {HttpOk(FALSE, Undefined, FALSE)}
    \cup {HttpOk(TRUE, Undefined, u) : u \in BOOLEAN}
    \cup {[HttpOk(TRUE, "embedding", u) EXCEPT !.length = n] :
            n \in UpstreamDims, u \in BOOLEAN}

embeddingDimension ==
  ParseInt(OrElse(getSetting("ELIZAOS_EMBEDDING_DIMENSIONS", "1536"), "1536"))

\* A plausible slip: the key is tested before the input, as the other
\* handlers do.
EmbeddingStartKeyFirst(p) ==
  LET i0 == Call("TEXT_EMBEDDING", p)
      i == [i0 EXCEPT !.dimension = embeddingDimension.n]
      text == p.text
  IN  IF embeddingDimension.nan \/ embeddingDimension.n \notin VECTOR_DIMS
      THEN Throw(i0, Err("invalid_dimension", {}))
      ELSE IF ~Truthy(getEmbeddingApiKey)
      THEN Throw(i, Err("missing_key", {}))
      ELSE IF p.kind = "null"
      THEN Return(i, SentinelVector(embeddingDimension.n, 1))
      ELSE IF ~(p.kind = "string" \/ (p.kind = "object" /\ Truthy(p.text)))
      THEN Return(i, SentinelVector(embeddingDimension.n, 2))
      ELSE IF ~Truthy(Trim(text))
      THEN Return(i, SentinelVector(embeddingDimension.n, 3))
      ELSE Fetch(i, Request("/embeddings", getEmbeddingBaseURL, getEmbeddingApiKey,
                            getSetting("ELIZAOS_EMBEDDING_MODEL", "text-embedding-3-small"),
                            text))

\* A plausible slip: the initialization call with null params is answered
\* before the dimension is validated.
EmbeddingStartNullFirst(p) ==
  LET i0 == Call("TEXT_EMBEDDING", p)
      i == [i0 EXCEPT !.dimension = embeddingDimension.n]
      text == p.text
  IN  IF p.kind = "null"
      THEN Return(i, SentinelVector(embeddingDimension.n, 1))
      ELSE IF embeddingDimension.nan \/ embeddingDimension.n \notin VECTOR_DIMS
      THEN Throw(i0, Err("invalid_dimension", {}))
      ELSE IF ~(p.kind = "string" \/ (p.kind = "object" /\ Truthy(p.text)))
      THEN Return(i, SentinelVector(embeddingDimension.n, 2))
      ELSE IF ~Truthy(Trim(text))
      THEN Return(i, SentinelVector(embeddingDimension.n, 3))
      ELSE IF ~Truthy(getEmbeddingApiKey)
      THEN Throw(i, Err("missing_key", {}))
      ELSE Fetch(i, Request("/embeddings", getEmbeddingBaseURL, getEmbeddingApiKey,
                            getSetting("ELIZAOS_EMBEDDING_MODEL", "text-embedding-3-small"),
                            text))

\* Lines 426-485: up to the awaited fetch.
EmbeddingStart(p) ==
  LET i0 == Call("TEXT_EMBEDDING", p)
      i == [i0 EXCEPT !.dimension = embeddingDimension.n]
      text == p.text
  IN  IF embeddingDimension.nan \/ embeddingDimension.n \notin VECTOR_DIMS
      THEN Throw(i0, Err("invalid_dimension", {}))
      ELSE IF p.kind = "null"
      THEN Return(i, SentinelVector(embeddingDimension.n, 1))
      ELSE IF ~(p.kind = "string" \/ (p.kind = "object" /\ Truthy(p.text)))
      THEN Return(i, SentinelVector(embeddingDimension.n, 2))
      ELSE IF ~Truthy(Trim(text))
      THEN Return(i, SentinelVector(embeddingDimension.n, 3))
      ELSE IF ~Truthy(getEmbeddingApiKey)
      THEN Throw(i, Err("missing_key", {}))
      ELSE Fetch(i, Request("/embeddings", getEmbeddingBaseURL, getEmbeddingApiKey,
                            getSetting("ELIZAOS_EMBEDDING_MODEL", "text-embedding-3-small"),
                            text))

\* A plausible slip: an invalid response structure is reported with the
\* sentinel of a non-success status.
EmbeddingOnResponseSharedSentinel(i0, resp) ==
  LET i == Received(i0, resp)
  IN  IF resp.kind = "network_error" THEN Return(i, SentinelVector(i.dimension, 6))
      ELSE IF ~resp.ok THEN Return(i, SentinelVector(i.dimension, 4))
      ELSE IF ~resp.json THEN Return(i, SentinelVector(i.dimension, 6))
      ELSE IF resp.data = Undefined THEN Return(i, SentinelVector(i.dimension, 4))
      ELSE Return(i, UpstreamVector(resp.length))

\* A plausible slip: a failed request is sent once more.
EmbeddingOnResponseRetry(i0, resp) ==
  LET i == Received(i0, resp)
  IN  IF (resp.kind = "network_error" \/ ~resp.ok) /\ Len(i.requests) < 2
      THEN Fetch(i, i.requests[1])
      ELSE IF resp.kind = "network_error" THEN Return(i, SentinelVector(i.dimension, 6))
      ELSE IF ~resp.ok THEN Return(i, SentinelVector(i.dimension, 4))
      ELSE IF ~resp.json THEN Return(i, SentinelVector(i.dimension, 6))
      ELSE IF resp.data = Undefined THEN Return(i, SentinelVector(i.dimension, 5))
      ELSE Return(i, UpstreamVector(resp.length))

\* A plausible slip: no try / catch around the request, and a non-success
\* status thrown as the other handlers do.
EmbeddingOnResponseThrows(i0, resp) ==
  LET i == Received(i0, resp)
  IN  IF resp.kind = "network_error" THEN Throw(i, Err("network", {}))
      ELSE IF ~resp.ok THEN Throw(i, Err("http_status", {resp.status}))
      ELSE IF ~resp.json THEN Throw(i, Err("json_parse", {}))
      ELSE IF resp.data = Undefined THEN Return(i, SentinelVector(i.dimension, 5))
      ELSE Return(i, UpstreamVector(resp.length))

\* Lines 487-529: the response, inside try / catch.
EmbeddingOnResponse(i0, resp) ==
  LET i == Received(i0, resp)
  IN  IF resp.kind = "network_error" THEN Return(i, SentinelVector(i.dimension, 6))
      ELSE IF ~resp.ok THEN Return(i, SentinelVector(i.dimension, 4))
      ELSE IF ~resp.json THEN Return(i, SentinelVector(i.dimension, 6))
      ELSE IF resp.data = Undefined THEN Return(i, SentinelVector(i.dimension, 5))
      ELSE Return(IF resp.usage
                  THEN emitModelUsageEvent(i, "TEXT_EMBEDDING", i.requests[1].input,
                                           "counts")
                  ELSE i,
                  UpstreamVector(resp.length))

----------------------------------------------------------------------------
(* IMAGE: src/src/index.ts 621-673 *)

ImageParams == {[prompt |-> "A beautiful sunset over a calm ocean"]}

ImageResponses ==
  Failures
    \cup {HttpOk(FALSE, Undefined, FALSE), HttpOk(TRUE, Undefined, FALSE),
          HttpOk(TRUE, "image-urls", FALSE)}

ImageStart(p) ==
  LET i == Call("IMAGE", p)
  IN  IF ~Truthy(getApiKey)
      THEN Throw(i, Err("missing_key", {}))
      ELSE Fetch(i, Request("/images/generations", getBaseURL, getApiKey,
                            "dall-e-3", p.prompt))

ImageOnResponse(i0, resp) ==
  LET i == Received(i0, resp)
  IN  IF resp.kind = "network_error" THEN Throw(i, Err("network", {}))
      ELSE IF ~resp.ok THEN Throw(i, Err("http_status", {resp.statusText}))
      ELSE IF ~resp.json THEN Throw(i, Err("json_parse", {}))
      ELSE Return(i, Field(resp))

----------------------------------------------------------------------------
(* TRANSCRIPTION: src/src/index.ts 806-852 *)

AudioBuffers == {NullV, "empty-buffer", "audio-bytes"}

TranscriptionResponses ==
  Failures
    \cup {HttpOk(FALSE, Undefined, FALSE), HttpOk(TRUE, Undefined, FALSE),
          HttpOk(TRUE, "transcript", FALSE)}

TranscriptionStart(audioBuffer) ==
  LET i == Call("TRANSCRIPTION", audioBuffer)
  IN  IF ~Truthy(getApiKey)
      THEN Throw(i, Err("missing_key", {}))
      ELSE IF Nullish(audioBuffer) \/ audioBuffer = "empty-buffer"
      THEN Throw(i, Err("empty_audio", {}))
      ELSE Fetch(i, Request("/audio/transcriptions", getBaseURL, getApiKey,
                            "whisper-1", audioBuffer))

TranscriptionOnResponse(i0, resp) ==
  LET i == Received(i0, resp)
  IN  IF resp.kind = "network_error" THEN Throw(i, Err("network", {}))
      ELSE IF ~resp.ok THEN Throw(i, Err("http_status", {resp.statusText}))
      ELSE IF ~resp.json THEN Throw(i, Err("json_parse", {}))
      ELSE Return(i, Field(resp))

----------------------------------------------------------------------------
(* TEXT_TO_SPEECH: src/src/index.ts 314-346 and 853-863 *)

SpeechTexts == {"Hello, this is a test for text-to-speech."}

SpeechResponses == Failures \cup {HttpOk(FALSE, "audio-stream", FALSE)}

\* fetchTextToSpeech up to its fetch: the key is read and sent, never tested.
SpeechStart(text) ==
  Fetch(Call("TEXT_TO_SPEECH", text),
        Request("/audio/speech", getBaseURL, getApiKey,
                getSetting("ELIZAOS_TTS_MODEL", "gpt-4o-mini-tts"), text))

SpeechOnResponse(i0, resp) ==
  LET i == Received(i0, resp)
  IN  IF resp.kind = "network_error" THEN Throw(i, Err("network", {}))
      ELSE IF ~resp.ok THEN Throw(i, Err("http_status", {resp.status, resp.statusText}))
      ELSE Return(i, Field(resp))

----------------------------------------------------------------------------
(* IMAGE_DESCRIPTION: src/src/index.ts 674-805 *)

ImageUrl == "https://example.com/image.jpg"
CustomImagePrompt == "What colour is the cat?"

ImageDescriptionParams ==
  {[kind |-> "string", imageUrl |-> ImageUrl, prompt |-> Undefined]}
    \cup {[kind |-> "object", imageUrl |-> ImageUrl, prompt |-> q] :
            q \in {Undefined, "", DefaultImagePrompt, CustomImagePrompt}}

TitledContent == "Title: A cat\nA cat on a mat."
PlainContent == "A cat on a mat."

ImageDescriptionResponses ==
  Failures
    \cup {HttpOk(FALSE, Undefined, FALSE)}
    \cup {HttpOk(TRUE, c, u) : c \in {Undefined, "", TitledContent, PlainContent},
                                u \in BOOLEAN}

ObjectValue(title, description) ==
  [type |-> "object", title |-> title, description |-> description]

\* content.match(/title[:\s]+(.+?)(?:\n|$)/i)?.[1]?.trim() || 'Image Analysis'
TitleOf(content) == IF content = TitledContent THEN "A cat" ELSE "Image Analysis"

\* content.replace(/title[:\s]+(.+?)(?:\n|$)/i, '').trim()
DescriptionOf(content) == IF content = TitledContent THEN PlainContent ELSE content

\* The max_tokens the request carries.
imageDescriptionMaxTokens ==
  ParseInt(OrElse(getSetting("OPENAI_IMAGE_DESCRIPTION_MAX_TOKENS", "8192"), "8192"))

ImageDescriptionStart(p) ==
  LET i == Call("IMAGE_DESCRIPTION", p)
      promptText == IF p.kind = "string" THEN DefaultImagePrompt
                    ELSE OrElse(p.prompt, DefaultImagePrompt)
  IN  IF ~Truthy(getApiKey)
      THEN Return(i, ObjectValue("Failed to analyze image", "API key not configured"))
      ELSE Fetch(i, [Request("/chat/completions", getBaseURL, getApiKey,
                             getImageDescriptionModel, promptText)
                       EXCEPT !.maxTokens = imageDescriptionMaxTokens])

\* A plausible slip: the content is split into title and description whatever
\* the prompt was.
ImageDescriptionOnResponseSplits(i0, resp) ==
  LET i == Received(i0, resp)
      failed(message) ==
        Return(i, ObjectValue("Failed to analyze image", "Error: " \o message))
  IN  IF resp.kind = "network_error" THEN failed("fetch failed")
      ELSE IF ~resp.ok THEN failed("ElizaOS API error: " \o resp.status)
      ELSE IF ~resp.json THEN failed("Unexpected token")
      ELSE IF ~Truthy(resp.data)
      THEN Return(i, ObjectValue("Failed to analyze image", "No response from API"))
      ELSE Return(i, ObjectValue(TitleOf(resp.data), DescriptionOf(resp.data)))

\* A plausible slip: no try / catch around the request, so that a failure is
\* thrown as the IMAGE handler throws it.
ImageDescriptionOnResponseRethrows(i0, resp) ==
  LET i == Received(i0, resp)
      p == i.params
      isCustomPrompt ==
        p.kind = "object" /\ Truthy(p.prompt) /\ p.prompt # DefaultImagePrompt
  IN  IF resp.kind = "network_error" THEN Throw(i, Err("network", {}))
      ELSE IF ~resp.ok THEN Throw(i, Err("http_status", {resp.status}))
      ELSE IF ~resp.json THEN Throw(i, Err("json_parse", {}))
      ELSE IF ~Truthy(resp.data)
      THEN Return(i, ObjectValue("Failed to analyze image", "No response from API"))
      ELSE IF isCustomPrompt THEN Return(i, StringValue(resp.data))
      ELSE Return(i, ObjectValue(TitleOf(resp.data), DescriptionOf(resp.data)))

ImageDescriptionOnResponse(i0, resp) ==
  LET i == Received(i0, resp)
      p == i.params
      failed(message) ==
        Return(i, ObjectValue("Failed to analyze image", "Error: " \o message))
      withUsage ==
        IF resp.usage
        THEN emitModelUsageEvent(i, "IMAGE_DESCRIPTION",
                                 IF p.kind = "string" THEN p.imageUrl
                                 ELSE OrElse(p.prompt, ""),
                                 "counts")
        ELSE i
      isCustomPrompt ==
        p.kind = "object" /\ Truthy(p.prompt) /\ p.prompt # DefaultImagePrompt
  IN  IF resp.kind = "network_error" THEN failed("fetch failed")
      ELSE IF ~resp.ok THEN failed("ElizaOS API error: " \o resp.status)
      ELSE IF ~resp.json THEN failed("Unexpected token")
      ELSE IF ~Truthy(resp.data)
      THEN Return(withUsage, ObjectValue("Failed to analyze image", "No response from API"))
      ELSE IF isCustomPrompt THEN Return(withUsage, StringValue(resp.data))
      ELSE Return(withUsage, ObjectValue(TitleOf(resp.data), DescriptionOf(resp.data)))

----------------------------------------------------------------------------
(* TEXT_SMALL, TEXT_LARGE, OBJECT_SMALL, OBJECT_LARGE: src/src/index.ts    *)
(* 156-161, 199-284 and 543-620.  These go through the AI SDK: the client   *)
(* of createOpenAI and generateText / generateObject, called without a      *)
(* maxRetries option.                                                       *)

\* The SDK's maxRetries when the call passes none.
MaxRetries == 2

TextPrompt == "What is the nature of reality in 10 words?"
TextParams == {[prompt |-> TextPrompt]}

\* createOpenAI({apiKey}): a string key is used as it is; without one the
\* client reads OPENAI_API_KEY from the environment, and throws when that is
\* missing too.
LoadApiKey(apiKey) == IF ~Nullish(apiKey) THEN apiKey ELSE env["OPENAI_API_KEY"]

ModelNameFor(h) ==
  IF h \in {"TEXT_SMALL", "OBJECT_SMALL"} THEN getSmallModel ELSE getLargeModel

\* createOpenAIClient, the model name and the SDK call up to its request.
SdkStart(h, p) ==
  LET i == Call(h, p)
      key == LoadApiKey(getApiKey)
  IN  IF key = Undefined
      THEN Throw(i, Err("load_api_key", {}))
      ELSE Fetch(i, [Request("/chat/completions", getBaseURL, key, ModelNameFor(h),
                             p.prompt)
                       EXCEPT !.maxTokens = IF h \in {"TEXT_SMALL", "TEXT_LARGE"}
                                            THEN Num(8192) ELSE UndefinedValue,
                              !.telemetry = IF h \in {"TEXT_SMALL", "TEXT_LARGE"}
                                            THEN IF getExperimentalTelemetry
                                                 THEN "enabled" ELSE "disabled"
                                            ELSE Undefined])

\* The failures the SDK sends again: a rejected fetch and the statuses 408,
\* 409, 429 and 5xx.
Retryable(resp) == resp.kind = "network_error" \/ resp.status = "500"

\* A failed SDK request: sent again while retries are left, else the error
\* is thrown to the handler, which lets it through.
SdkOnFailure(i, resp) ==
  IF Retryable(resp) /\ Len(i.requests) <= MaxRetries
  THEN Fetch(i, i.requests[1])
  ELSE Throw(i, Err(IF Retryable(resp) THEN "sdk_retries_exhausted" ELSE "sdk_api_call",
                    {resp.status}))

TextResponses ==
  Failures
    \cup {HttpOk(FALSE, Undefined, FALSE), HttpOk(TRUE, Undefined, FALSE)}
    \cup {HttpOk(TRUE, "generated text", u) : u \in BOOLEAN}

\* The usage the SDK hands back: always an object, its counts NaN when the
\* response carried none.
SdkUsage(resp) == IF resp.usage THEN "counts" ELSE "NaN"

\* generateText's outcome and lines 576-580.
TextOnResponse(i0, resp) ==
  LET i == Received(i0, resp)
  IN  IF resp.kind = "network_error" \/ ~resp.ok THEN SdkOnFailure(i, resp)
      ELSE IF ~resp.json \/ resp.data = Undefined
      THEN Throw(i, Err("sdk_invalid_response", {}))
      ELSE Return(emitModelUsageEvent(i, i.handler, i.params.prompt, SdkUsage(resp)),
                  StringValue(resp.data))

ObjectTexts == {"json", "fenced-json", "garbage"}

ObjectResponses ==
  Failures
    \cup {HttpOk(FALSE, Undefined, FALSE)}
    \cup {HttpOk(TRUE, t, u) : t \in ObjectTexts, u \in BOOLEAN}

\* JSON.parse(text) succeeds.
JsonParses(text) == text = "json"

\* text.replace(/```json\n|\n```|```/g, '')
StripFences(text) == IF text = "fenced-json" THEN "json" ELSE text

\* getJsonRepairFunction()({text, error}) for a JSONParseError: the cleaned
\* text when it parses, else null.
RepairJson(text) == IF JsonParses(StripFences(text)) THEN StripFences(text) ELSE NullV

\* A plausible slip: the repair function's null is handed back as the result
\* when the cleaned text does not parse either.
ObjectOnResponseReturnsNull(i0, resp, sdkRepairs) ==
  LET i == Received(i0, resp)
      emitted == emitModelUsageEvent(i, i.handler, i.params.prompt, SdkUsage(resp))
  IN  IF resp.kind = "network_error" \/ ~resp.ok THEN SdkOnFailure(i, resp)
      ELSE IF ~resp.json \/ resp.data = Undefined
      THEN Throw(i, Err("sdk_invalid_response", {}))
      ELSE IF JsonParses(resp.data) THEN Return(emitted, DataValue(resp.data))
      ELSE IF sdkRepairs
      THEN IF RepairJson(resp.data) # NullV
           THEN Return(emitted, DataValue(RepairJson(resp.data)))
           ELSE Throw(i, Err("no_object_generated", {}))
      ELSE Return(i, DataValue(RepairJson(resp.data)))

\* generateObject's outcome and lines 226-260.  sdkRepairs: the SDK itself
\* applies experimental_repairText and wraps a remaining parse failure in
\* NoObjectGeneratedError; an SDK that does not throws the JSONParseError.
ObjectOnResponse(i0, resp, sdkRepairs) ==
  LET i == Received(i0, resp)
      emitted == emitModelUsageEvent(i, i.handler, i.params.prompt, SdkUsage(resp))
  IN  IF resp.kind = "network_error" \/ ~resp.ok THEN SdkOnFailure(i, resp)
      ELSE IF ~resp.json \/ resp.data = Undefined
      THEN Throw(i, Err("sdk_invalid_response", {}))
      ELSE IF JsonParses(resp.data) THEN Return(emitted, DataValue(resp.data))
      ELSE IF sdkRepairs
      THEN IF RepairJson(resp.data) # NullV
           THEN Return(emitted, DataValue(RepairJson(resp.data)))
           ELSE Throw(i, Err("no_object_generated", {}))
      ELSE IF Truthy(RepairJson(resp.data))
      THEN Return(i, DataValue(RepairJson(resp.data)))
      ELSE Throw(i, Err("json_parse", {}))

----------------------------------------------------------------------------
(* init: src/src/index.ts 370-419.  The check of the API key runs in the    *)
(* executor of a promise nobody awaits; pc is "validating" while its        *)
(* request to /models is in flight, promise is the state of the promise     *)
(* init returned to the host.                                               *)

ModelsResponses ==
  Failures
    \cup {HttpOk(FALSE, Undefined, FALSE), HttpOk(TRUE, Undefined, FALSE),
          HttpOk(TRUE, "models", FALSE)}

\* A plausible slip: init awaits the check, so its promise stays pending
\* until the /models response is in.
initStartAwaits ==
  IF ~Truthy(getApiKey)
  THEN [NotLoaded EXCEPT !.pc = "done", !.promise = "resolved",
                         !.warnings = <<"ELIZAOS_API_KEY is not set">>]
  ELSE [NotLoaded EXCEPT !.pc = "validating", !.promise = "pending",
                         !.requests = <<Request("/models", getBaseURL, getApiKey,
                                                Undefined, Undefined)>>]

\* Lines 370-385 and 418-419: the executor runs to its awaited fetch (or to
\* the return at 379) and init returns.
initStart ==
  IF ~Truthy(getApiKey)
  THEN [NotLoaded EXCEPT !.pc = "done", !.promise = "resolved",
                         !.warnings = <<"ELIZAOS_API_KEY is not set">>]
  ELSE [NotLoaded EXCEPT !.pc = "validating", !.promise = "resolved",
                         !.requests = <<Request("/models", getBaseURL, getApiKey,
                                                Undefined, Undefined)>>]

\* Lines 388-408: the /models response, inside try / catch.
initOnResponse(c0, resp) ==
  LET c == [c0 EXCEPT !.responses = Append(@, resp)]
      done(warned) ==
        [c EXCEPT !.pc = "done", !.promise = "resolved", !.warnings = @ \o warned]
      limited == "functionality will be limited until a valid API key is provided"
  IN  IF resp.kind = "network_error"
      THEN done(<<"Error validating ElizaOS API key", limited>>)
      ELSE IF ~resp.ok THEN done(<<"API key validation failed", limited>>)
      ELSE IF ~resp.json THEN done(<<"Error validating ElizaOS API key", limited>>)
      ELSE done(<<>>)

----------------------------------------------------------------------------
(* The specification Spec: one handler call at a time, under every         *)
(* configuration of Configurations.                                        *)

\* Per key, the (runtime setting, environment value) pairs the model draws.
SettingChoices ==
  [ELIZAOS_API_KEY |->
     {<<Undefined, Undefined>>, <<Undefined, "key-env">>, <<"key-rt", "key-env">>,
      <<"", "key-env">>},
   ELIZAOS_EMBEDDING_API_KEY |->
     {<<Undefined, Undefined>>, <<"embedding-key", Undefined>>, <<Undefined, "">>},
   ELIZAOS_BASE_URL |->
     {<<Undefined, Undefined>>, <<Undefined, "https://cloud.example/api/v1">>},
   ELIZAOS_EMBEDDING_URL |->
     {<<Undefined, Undefined>>, <<Undefined, "https://embed.example/v1">>,
      <<"", Undefined>>},
   ELIZAOS_EMBEDDING_DIMENSIONS |->
     {<<Undefined, Undefined>>, <<Undefined, "384">>, <<"999", "384">>, <<"", "384">>,
      <<Undefined, "auto">>},
   ELIZAOS_IMAGE_DESCRIPTION_MAX_TOKENS |->
     {<<Undefined, Undefined>>, <<Undefined, "1024">>},
   OPENAI_IMAGE_DESCRIPTION_MAX_TOKENS |->
     {<<Undefined, Undefined>>, <<"2048", Undefined>>},
   OPENAI_API_KEY |->
     {<<Undefined, Undefined>>, <<Undefined, "openai-key">>}]

ConfiguredKeys == DOMAIN SettingChoices

\* The settings context in which each configured key holds its chosen pair.
Configured(c, source) ==
  [k \in Keys |-> IF k \in ConfiguredKeys THEN c[k][source] ELSE Undefined]

Init ==
  /\ \E apiKey \in SettingChoices.ELIZAOS_API_KEY,
        embeddingKey \in SettingChoices.ELIZAOS_EMBEDDING_API_KEY,
        baseURL \in SettingChoices.ELIZAOS_BASE_URL,
        embeddingURL \in SettingChoices.ELIZAOS_EMBEDDING_URL,
        dimensions \in SettingChoices.ELIZAOS_EMBEDDING_DIMENSIONS,
        elizaMaxTokens \in SettingChoices.ELIZAOS_IMAGE_DESCRIPTION_MAX_TOKENS,
        openaiMaxTokens \in SettingChoices.OPENAI_IMAGE_DESCRIPTION_MAX_TOKENS,
        openaiKey \in SettingChoices.OPENAI_API_KEY :
       LET c == [ELIZAOS_API_KEY |-> apiKey,
                 ELIZAOS_EMBEDDING_API_KEY |-> embeddingKey,
                 ELIZAOS_BASE_URL |-> baseURL,
                 ELIZAOS_EMBEDDING_URL |-> embeddingURL,
                 ELIZAOS_EMBEDDING_DIMENSIONS |-> dimensions,
                 ELIZAOS_IMAGE_DESCRIPTION_MAX_TOKENS |-> elizaMaxTokens,
                 OPENAI_IMAGE_DESCRIPTION_MAX_TOKENS |-> openaiMaxTokens,
                 OPENAI_API_KEY |-> openaiKey]
       IN  rt = Configured(c, 1) /\ env = Configured(c, 2)
  /\ look = NoLookup
  /\ tok = NoTok
  /\ inv = Idle
  /\ initCall = NotLoaded
  /\ calls = NoCalls

Awaiting(h) == inv.pc = "awaiting" /\ inv.handler = h

\* A plausible slip: a handler stores the key it resolved in the environment
\* for the SDK client to find.
UnchangedButKeyExported ==
  /\ env' = [env EXCEPT !["OPENAI_API_KEY"] = Coalesce(getApiKey, @)]
  /\ UNCHANGED <<rt, look, tok, initCall, calls>>

\* What a handler leaves alone: it reads the settings and writes none, and it
\* shares nothing with init.
Unchanged == UNCHANGED <<rt, env, look, tok, initCall, calls>>

InvokeTextEmbedding(p) == inv.pc = "idle" /\ inv' = EmbeddingStart(p) /\ Unchanged

TextEmbeddingResponse(resp) ==
  Awaiting("TEXT_EMBEDDING") /\ inv' = EmbeddingOnResponse(inv, resp) /\ Unchanged

InvokeText(h, p) == inv.pc = "idle" /\ inv' = SdkStart(h, p) /\ Unchanged

TextResponse(resp) ==
  /\ inv.pc = "awaiting" /\ inv.handler \in {"TEXT_SMALL", "TEXT_LARGE"}
  /\ inv' = TextOnResponse(inv, resp)
  /\ Unchanged

InvokeObject(h, p) == inv.pc = "idle" /\ inv' = SdkStart(h, p) /\ Unchanged

ObjectResponse(resp, sdkRepairs) ==
  /\ inv.pc = "awaiting" /\ inv.handler \in {"OBJECT_SMALL", "OBJECT_LARGE"}
  /\ inv' = ObjectOnResponse(inv, resp, sdkRepairs)
  /\ Unchanged

InvokeImage(p) == inv.pc = "idle" /\ inv' = ImageStart(p) /\ Unchanged

ImageResponse(resp) == Awaiting("IMAGE") /\ inv' = ImageOnResponse(inv, resp) /\ Unchanged

InvokeImageDescription(p) ==
  inv.pc = "idle" /\ inv' = ImageDescriptionStart(p) /\ Unchanged

ImageDescriptionResponse(resp) ==
  /\ Awaiting("IMAGE_DESCRIPTION")
  /\ inv' = ImageDescriptionOnResponse(inv, resp)
  /\ Unchanged

InvokeTranscription(audioBuffer) ==
  inv.pc = "idle" /\ inv' = TranscriptionStart(audioBuffer) /\ Unchanged

TranscriptionResponse(resp) ==
  Awaiting("TRANSCRIPTION") /\ inv' = TranscriptionOnResponse(inv, resp) /\ Unchanged

InvokeTextToSpeech(text) == inv.pc = "idle" /\ inv' = SpeechStart(text) /\ Unchanged

TextToSpeechResponse(resp) ==
  Awaiting("TEXT_TO_SPEECH") /\ inv' = SpeechOnResponse(inv, resp) /\ Unchanged

\* The caller has the call's outcome; the handlers keep nothing of it.
Settle ==
  /\ inv.pc \in {"returned", "thrown"}
  /\ inv' = Idle
  /\ Unchanged

Next ==
  \/ \E t \in SpeechTexts : InvokeTextToSpeech(t)
  \/ \E r \in SpeechResponses : TextToSpeechResponse(r)
  \/ \E p \in ImageDescriptionParams : InvokeImageDescription(p)
  \/ \E r \in ImageDescriptionResponses : ImageDescriptionResponse(r)
  \/ \E p \in EmbeddingParams : InvokeTextEmbedding(p)
  \/ \E r \in EmbeddingResponses : TextEmbeddingResponse(r)
  \/ \E h \in {"TEXT_SMALL", "TEXT_LARGE"}, p \in TextParams : InvokeText(h, p)
  \/ \E r \in TextResponses : TextResponse(r)
  \/ \E h \in {"OBJECT_SMALL", "OBJECT_LARGE"}, p \in TextParams : InvokeObject(h, p)
  \/ \E r \in ObjectResponses, b \in BOOLEAN : ObjectResponse(r, b)
  \/ \E p \in ImageParams : InvokeImage(p)
  \/ \E r \in ImageResponses : ImageResponse(r)
  \/ \E a \in AudioBuffers : InvokeTranscription(a)
  \/ \E r \in TranscriptionResponses : TranscriptionResponse(r)
  \/ Settle

Spec == Init /\ [][Next]_vars

----------------------------------------------------------------------------
(* The specification SpecPlugin: the host loads the plugin and calls the    *)
(* handlers while the key validation may still be in flight.               *)

PluginInit ==
  /\ initCall.pc = "unloaded"
  /\ initCall' = initStart
  /\ UNCHANGED <<rt, env, look, tok, inv, calls>>

ValidationResponse(resp) ==
  /\ initCall.pc = "validating"
  /\ initCall' = initOnResponse(initCall, resp)
  /\ UNCHANGED <<rt, env, look, tok, inv, calls>>

\* The texts the tokenizers are given here.
PluginTexts == {<<"a", "b">>}

InitPlugin ==
  /\ \E apiKey \in SettingChoices.ELIZAOS_API_KEY,
        baseURL \in SettingChoices.ELIZAOS_BASE_URL :
       LET c == [k \in ConfiguredKeys |->
                   IF k = "ELIZAOS_API_KEY" THEN apiKey
                   ELSE IF k = "ELIZAOS_BASE_URL" THEN baseURL
                   ELSE <<Undefined, Undefined>>]
       IN  rt = Configured(c, 1) /\ env = Configured(c, 2)
  /\ look = NoLookup
  /\ tok = NoTok
  /\ inv = Idle
  /\ initCall = NotLoaded
  /\ calls = NoCalls

NextPlugin ==
  \/ PluginInit
  \/ \E r \in ModelsResponses : ValidationResponse(r)
  \/ Next
  \/ \E m \in TokModelTypes, p \in PluginTexts : TokenizerEncode(m, p)
  \/ \E m \in TokModelTypes : TokenizerDecode(m)
  \/ TokenizerDone

SpecPlugin == InitPlugin /\ [][NextPlugin]_vars

----------------------------------------------------------------------------
(* The specification SpecNames: text generation and the tokenizers under    *)
(* every configuration of the model-name and telemetry settings.           *)

\* Per key, the (runtime setting, environment value) pairs the model draws.
NameChoices ==
  [ELIZAOS_SMALL_MODEL |->
     {<<Undefined, Undefined>>, <<"gpt-4", Undefined>>, <<Undefined, "gpt-4">>,
      <<NullV, "gpt-4">>, <<"", "gpt-4">>},
   SMALL_MODEL |->
     {<<Undefined, Undefined>>, <<"gpt-3.5-turbo", Undefined>>,
      <<Undefined, "gpt-3.5-turbo">>},
   ELIZAOS_LARGE_MODEL |->
     {<<Undefined, Undefined>>, <<"gpt-4", Undefined>>, <<Undefined, "gpt-4o">>},
   LARGE_MODEL |->
     {<<Undefined, Undefined>>, <<"gpt-3.5-turbo", Undefined>>,
      <<Undefined, "gpt-3.5-turbo">>},
   ELIZAOS_EXPERIMENTAL_TELEMETRY |->
     {<<Undefined, Undefined>>, <<"true", Undefined>>, <<Undefined, "TRUE">>,
      <<TrueV, Undefined>>, <<"false", "true">>, <<"1", Undefined>>,
      <<"", "true">>}]

\* The texts the tokenizers are given here.
NamesTexts == {<<"a", "b">>}

InitNames ==
  /\ \E small \in NameChoices.ELIZAOS_SMALL_MODEL,
        smallPlain \in NameChoices.SMALL_MODEL,
        large \in NameChoices.ELIZAOS_LARGE_MODEL,
        largePlain \in NameChoices.LARGE_MODEL,
        telemetry \in NameChoices.ELIZAOS_EXPERIMENTAL_TELEMETRY :
       LET unset == <<Undefined, Undefined>>
           \* the names vary with telemetry unset, telemetry with the names unset
           varied == \/ telemetry = unset
                     \/ <<small, smallPlain, large, largePlain>>
                          = <<unset, unset, unset, unset>>
           c == [ELIZAOS_SMALL_MODEL |-> small,
                 SMALL_MODEL |-> smallPlain,
                 ELIZAOS_LARGE_MODEL |-> large,
                 LARGE_MODEL |-> largePlain,
                 ELIZAOS_EXPERIMENTAL_TELEMETRY |-> telemetry,
                 ELIZAOS_API_KEY |-> <<Undefined, "key-env">>]
           chosen(source) ==
             [k \in Keys |-> IF k \in DOMAIN c THEN c[k][source] ELSE Undefined]
       IN  varied /\ rt = chosen(1) /\ env = chosen(2)
  /\ look = NoLookup
  /\ tok = NoTok
  /\ inv = Idle
  /\ initCall = NotLoaded
  /\ calls = NoCalls

NextNames ==
  \/ \E h \in {"TEXT_SMALL", "TEXT_LARGE"}, p \in TextParams : InvokeText(h, p)
  \/ \E r \in TextResponses : TextResponse(r)
  \/ Settle
  \/ \E m \in TokModelTypes, p \in NamesTexts : TokenizerEncode(m, p)
  \/ \E m \in TokModelTypes : TokenizerDecode(m)
  \/ TokenizerDone

SpecNames == InitNames /\ [][NextNames]_vars

----------------------------------------------------------------------------
(* The specification SpecConcurrent: several callers, each with a handler   *)
(* call of its own, the calls in flight together and their responses        *)
(* arriving in any order.  A handler keeps what it works on in its own      *)
(* locals and builds its own client, so a step of one call touches that     *)
(* call only.                                                               *)

\* models[h](runtime, p), to its awaited request or its early end.
StartOf(h, p) ==
  CASE h = "TEXT_EMBEDDING" -> EmbeddingStart(p)
    [] h = "IMAGE" -> ImageStart(p)
    [] h = "IMAGE_DESCRIPTION" -> ImageDescriptionStart(p)
    [] h = "TRANSCRIPTION" -> TranscriptionStart(p)
    [] h = "TEXT_TO_SPEECH" -> SpeechStart(p)
    [] OTHER -> SdkStart(h, p)

\* models[h] from the response to its request on.
OnResponseOf(i, resp) ==
  CASE i.handler = "TEXT_EMBEDDING" -> EmbeddingOnResponse(i, resp)
    [] i.handler = "IMAGE" -> ImageOnResponse(i, resp)
    [] i.handler = "IMAGE_DESCRIPTION" -> ImageDescriptionOnResponse(i, resp)
    [] i.handler = "TRANSCRIPTION" -> TranscriptionOnResponse(i, resp)
    [] i.handler = "TEXT_TO_SPEECH" -> SpeechOnResponse(i, resp)
    [] i.handler \in {"TEXT_SMALL", "TEXT_LARGE"} -> TextOnResponse(i, resp)
    [] OTHER -> ObjectOnResponse(i, resp, TRUE)

TextAndObjectHandlers == {"TEXT_SMALL", "TEXT_LARGE", "OBJECT_SMALL", "OBJECT_LARGE"}
AllHandlers ==
  TextAndObjectHandlers \cup
    {"TEXT_EMBEDDING", "IMAGE", "IMAGE_DESCRIPTION", "TRANSCRIPTION", "TEXT_TO_SPEECH"}

\* The successful response the upstream API gives to a handler's request.
SuccessFor(h) ==
  CASE h = "TEXT_EMBEDDING" -> [HttpOk(TRUE, "embedding", TRUE) EXCEPT !.length = 1536]
    [] h = "IMAGE" -> HttpOk(TRUE, "image-urls", FALSE)
    [] h = "IMAGE_DESCRIPTION" -> HttpOk(TRUE, PlainContent, TRUE)
    [] h = "TRANSCRIPTION" -> HttpOk(TRUE, "transcript", FALSE)
    [] h = "TEXT_TO_SPEECH" -> HttpOk(FALSE, "audio-stream", FALSE)
    [] h \in {"TEXT_SMALL", "TEXT_LARGE"} -> HttpOk(TRUE, "generated text", TRUE)
    [] OTHER -> HttpOk(TRUE, "json", TRUE)

\* The responses drawn here: a rejected fetch, a refusal and a success.
ConcurrentResponses(h) ==
  {NetworkError, HttpError("401", "Unauthorized"), SuccessFor(h)}

\* A plausible slip: responses are matched to the calls in the order the
\* calls were made, through a queue the calls share, so that the response to
\* caller s's request resumes the first caller still waiting.
DeliveredToFirstWaiting(s, resp) ==
  LET waiting == {x \in Callers : calls[x].call.pc = "awaiting"}
      t == CHOOSE x \in waiting : \A y \in waiting : x <= y
  IN  [x \in Callers |->
         [call |-> IF x = t THEN OnResponseOf(calls[x].call, resp) ELSE calls[x].call,
          answered |-> IF x = s THEN Append(calls[x].answered, resp)
                       ELSE calls[x].answered]]

\* The response to caller s's request resumes caller s's call.
Delivered(s, resp) ==
  [calls EXCEPT ![s] = [call |-> OnResponseOf(@.call, resp),
                        answered |-> Append(@.answered, resp)]]

InvokeConcurrent(s, h, p) ==
  /\ calls[s].call.pc = "idle"
  /\ calls' = [calls EXCEPT ![s] = [call |-> StartOf(h, p), answered |-> <<>>]]
  /\ UNCHANGED <<rt, env, look, tok, inv, initCall>>

RespondConcurrent(s, resp) ==
  /\ calls[s].call.pc = "awaiting"
  /\ resp \in ConcurrentResponses(calls[s].call.handler)
  /\ calls' = Delivered(s, resp)
  /\ UNCHANGED <<rt, env, look, tok, inv, initCall>>

\* The caller has its call's outcome.
SettleConcurrent(s) ==
  /\ calls[s].call.pc \in {"returned", "thrown"}
  /\ calls' = [calls EXCEPT ![s] = NoCalls[s]]
  /\ UNCHANGED <<rt, env, look, tok, inv, initCall>>

InitConcurrent ==
  /\ rt = AllUnset
  /\ \E key \in {Undefined, "key-env"} : env = [AllUnset EXCEPT !["ELIZAOS_API_KEY"] = key]
  /\ look = NoLookup
  /\ tok = NoTok
  /\ inv = Idle
  /\ initCall = NotLoaded
  /\ calls = NoCalls

NextConcurrent ==
  \E s \in Callers :
    \/ InvokeConcurrent(s, "TEXT_EMBEDDING", [kind |-> "string", text |-> "Hello, world!"])
    \/ \E h \in TextAndObjectHandlers, p \in TextParams : InvokeConcurrent(s, h, p)
    \/ \E p \in ImageParams : InvokeConcurrent(s, "IMAGE", p)
    \/ InvokeConcurrent(s, "IMAGE_DESCRIPTION",
                        [kind |-> "string", imageUrl |-> ImageUrl, prompt |-> Undefined])
    \/ InvokeConcurrent(s, "TRANSCRIPTION", "audio-bytes")
    \/ \E t \in SpeechTexts : InvokeConcurrent(s, "TEXT_TO_SPEECH", t)
    \/ \E r \in UNION {ConcurrentResponses(h) : h \in AllHandlers} :
         RespondConcurrent(s, r)
    \/ SettleConcurrent(s)

SpecConcurrent == InitConcurrent /\ [][NextConcurrent]_vars

----------------------------------------------------------------------------
(* What the claims speak of, stated apart from the handlers. *)

FetchHandlers ==
  {"TEXT_EMBEDDING", "IMAGE", "IMAGE_DESCRIPTION", "TRANSCRIPTION", "TEXT_TO_SPEECH"}
SdkHandlers == {"TEXT_SMALL", "TEXT_LARGE", "OBJECT_SMALL", "OBJECT_LARGE"}

Started == inv.pc # "idle"
Settled == inv.pc \in {"returned", "thrown"}

\* A key is absent from the runtime settings and from the environment.
Absent(key) == Nullish(rt[key]) /\ env[key] = Undefined

\* The value a key resolves to, runtime first.
Resolved(key) == IF ~Nullish(rt[key]) THEN rt[key] ELSE env[key]

\* No API key can be resolved for handler h.
NoApiKey(h) ==
  /\ Absent("ELIZAOS_API_KEY")
  /\ h = "TEXT_EMBEDDING" => Absent("ELIZAOS_EMBEDDING_API_KEY")

\* The call's input is one the handler would send upstream.
InputValid(i) ==
  CASE i.handler = "TEXT_EMBEDDING" ->
         /\ i.params.kind \in {"string", "object"}
         /\ i.params.text \notin {Undefined, "", "   "}
         /\ \E d \in VECTOR_DIMS :
              Resolved("ELIZAOS_EMBEDDING_DIMENSIONS") \in {Undefined, ""} \/
              ParseInt(Resolved("ELIZAOS_EMBEDDING_DIMENSIONS")) = Num(d)
    [] i.handler = "TRANSCRIPTION" -> i.params = "audio-bytes"
    [] OTHER -> TRUE

\* The credentials pass the handler's own test (TEXT_TO_SPEECH has none; the
\* SDK client needs a string key or OPENAI_API_KEY).
CredentialsValid(i) ==
  CASE i.handler = "TEXT_EMBEDDING" ->
         \/ Resolved("ELIZAOS_EMBEDDING_API_KEY") \notin {Undefined, NullV, ""}
         \/ Resolved("ELIZAOS_API_KEY") \notin {Undefined, NullV, ""}
    [] i.handler \in {"IMAGE", "IMAGE_DESCRIPTION", "TRANSCRIPTION"} ->
         Resolved("ELIZAOS_API_KEY") \notin {Undefined, NullV, ""}
    [] i.handler = "TEXT_TO_SPEECH" -> TRUE
    [] OTHER ->
         Resolved("ELIZAOS_API_KEY") # Undefined \/ env["OPENAI_API_KEY"] # Undefined

FixedPath(h) ==
  CASE h = "TEXT_EMBEDDING" -> "/embeddings"
    [] h = "IMAGE" -> "/images/generations"
    [] h = "TRANSCRIPTION" -> "/audio/transcriptions"
    [] h = "TEXT_TO_SPEECH" -> "/audio/speech"
    [] OTHER -> "/chat/completions"

LastResponse == inv.responses[Len(inv.responses)]

\* C1: with no API key resolvable, a call whose input would go upstream ends
\* by throwing and issues no outbound request.  (Stated as claimed; the
\* handlers violate it.)
C1_MissingKeyThrows ==
  (Started /\ NoApiKey(inv.handler) /\ InputValid(inv))
    => inv.pc = "thrown" /\ inv.requests = <<>>

\* C2: every vector TEXT_EMBEDDING returns has the configured
\* ELIZAOS_EMBEDDING_DIMENSIONS length (1536 when unset).  (Stated as claimed;
\* the success path violates it.)
C2_DimensionAlways ==
  (inv.handler = "TEXT_EMBEDDING" /\ inv.pc = "returned")
    => inv.result.length =
         (IF Resolved("ELIZAOS_EMBEDDING_DIMENSIONS") \in {Undefined, ""} THEN 1536
          ELSE ParseInt(Resolved("ELIZAOS_EMBEDDING_DIMENSIONS")).n)

C6_EmbeddingNeverThrows ==
  (inv.handler = "TEXT_EMBEDDING" /\ inv.requests # <<>>) =>
    /\ inv.pc # "thrown"
    /\ (inv.pc = "returned"
        /\ (LastResponse.kind = "network_error" \/ ~LastResponse.ok
            \/ ~LastResponse.json \/ LastResponse.data = Undefined))
         => /\ inv.result.rest = "zeros"
            /\ inv.result.first \in {4, 5, 6}

\* C6's case: the upstream answered the embedding request with a non-success
\* status and the call returned the 0.4 sentinel.
C6_Witness ==
  /\ inv.handler = "TEXT_EMBEDDING"
  /\ inv.pc = "returned"
  /\ inv.responses # <<>>
  /\ LastResponse.kind = "http" /\ ~LastResponse.ok
  /\ inv.result.first = 4

\* C7: for IMAGE, TRANSCRIPTION and TEXT_TO_SPEECH a non-success status or a
\* malformed payload always makes the call throw (for a non-success status, an
\* error embedding the upstream status or status text) and never return.
\* (Stated as claimed; a well-formed JSON body without the expected field is
\* returned as undefined.)
C7_UpstreamErrorsThrow ==
  (inv.handler \in {"IMAGE", "TRANSCRIPTION", "TEXT_TO_SPEECH"} /\ Settled
   /\ inv.responses # <<>>) =>
    /\ (LastResponse.kind = "http" /\ ~LastResponse.ok) =>
         /\ inv.pc = "thrown"
         /\ inv.error.detail \cap {LastResponse.status, LastResponse.statusText} # {}
    /\ (inv.handler # "TEXT_TO_SPEECH" /\ LastResponse.ok
        /\ (~LastResponse.json \/ LastResponse.data = Undefined)) =>
         inv.pc = "thrown"

\* C8: a settled call has emitted a MODEL_USED event exactly when its
\* response carried usage data, at most one, with provider 'elizaos', the
\* handler's model type and the prompt the call sent.  (Stated as claimed.)
C8_UsageEventIffUsage ==
  Settled =>
    /\ Len(inv.events) <= 1
    /\ inv.events # <<>> <=> (inv.responses # <<>> /\ LastResponse.usage)
    /\ \A k \in 1..Len(inv.events) :
         /\ inv.events[k].provider = "elizaos"
         /\ inv.events[k].type = inv.handler
         /\ inv.events[k].prompt = inv.requests[1].input

\* C9: the IMAGE_DESCRIPTION request carries the value of
\* ELIZAOS_IMAGE_DESCRIPTION_MAX_TOKENS when that is set, and 8192 only when it
\* is unset.  (Stated as claimed; the handler reads another key.)
C9_MaxTokensFromSetting ==
  (inv.handler = "IMAGE_DESCRIPTION" /\ inv.requests # <<>>) =>
    inv.requests[1].maxTokens =
      IF Resolved("ELIZAOS_IMAGE_DESCRIPTION_MAX_TOKENS") \in {Undefined, ""}
      THEN Num(8192)
      ELSE ParseInt(Resolved("ELIZAOS_IMAGE_DESCRIPTION_MAX_TOKENS"))

\* C10: an embedding request carries ELIZAOS_EMBEDDING_API_KEY when that is
\* set (to a non-empty value) and otherwise ELIZAOS_API_KEY, and goes to
\* ELIZAOS_EMBEDDING_URL when that is set and otherwise to ELIZAOS_BASE_URL or
\* its default; no other handler's request carries the embedding key or goes
\* to the embedding URL.
C10_EmbeddingCredentials ==
  \A k \in 1..Len(inv.requests) :
    LET r == inv.requests[k]
        embeddingKey == Resolved("ELIZAOS_EMBEDDING_API_KEY")
        embeddingURL == Resolved("ELIZAOS_EMBEDDING_URL")
        generalURL == IF Resolved("ELIZAOS_BASE_URL") # Undefined
                      THEN Resolved("ELIZAOS_BASE_URL")
                      ELSE "http://localhost:3001/api/v1"
    IN  IF inv.handler = "TEXT_EMBEDDING"
        THEN /\ r.apiKey = IF embeddingKey \notin {Undefined, ""} THEN embeddingKey
                           ELSE Resolved("ELIZAOS_API_KEY")
             /\ r.baseURL = IF embeddingURL \notin {Undefined, ""} THEN embeddingURL
                            ELSE generalURL
        ELSE /\ embeddingKey \notin {Undefined, ""} => r.apiKey # embeddingKey
             /\ embeddingURL \notin {Undefined, ""} => r.baseURL # embeddingURL

\* C10's case: both the embedding key and URL and the general key and URL are
\* set, and the embedding request in flight carries the embedding ones.
C10_Witness ==
  /\ inv.handler = "TEXT_EMBEDDING"
  /\ inv.pc = "awaiting"
  /\ Resolved("ELIZAOS_API_KEY") = "key-rt"
  /\ Resolved("ELIZAOS_BASE_URL") = "https://cloud.example/api/v1"
  /\ inv.requests[1].apiKey = "embedding-key"
  /\ inv.requests[1].baseURL = "https://embed.example/v1"

\* C11: IMAGE_DESCRIPTION invoked with a plain string (the image URL) never
\* throws and never returns a bare string: whatever the outcome (missing API
\* key, upstream HTTP error, empty content, exception, success) the result is
\* an object with a title and a description.
C11_StringParamsReturnObject ==
  (inv.handler = "IMAGE_DESCRIPTION" /\ inv.params.kind = "string") =>
    /\ inv.pc # "thrown"
    /\ inv.pc = "returned" =>
         /\ inv.result.type = "object"
         /\ {"title", "description"} \subseteq DOMAIN inv.result

\* C11's case: the image URL was passed as a string, the upstream request
\* failed on the network, and the call returned the failure object.
C11_Witness ==
  /\ inv.handler = "IMAGE_DESCRIPTION"
  /\ inv.params.kind = "string"
  /\ inv.pc = "returned"
  /\ inv.responses = <<NetworkError>>
  /\ inv.result.title = "Failed to analyze image"

\* The API key init and the fetch-based handlers test: set and not empty.
HasApiKey == Resolved("ELIZAOS_API_KEY") \notin {Undefined, NullV, ""}

\* C12: init returns to the host without waiting for the key validation and
\* never rejects: the promise it returned is resolved while the /models
\* request is still in flight; a missing key, a non-success status, an
\* unreadable body and a network failure only add warnings; there is no
\* /models request without a key; and whatever init did, every handler can
\* be called.
C12_InitNonBlocking ==
  initCall.pc # "unloaded" =>
    /\ initCall.promise = "resolved"
    /\ Len(initCall.requests) = (IF HasApiKey THEN 1 ELSE 0)
    /\ \A k \in 1..Len(initCall.requests) : initCall.requests[k].path = "/models"
    /\ (initCall.pc = "done"
        /\ (~HasApiKey
            \/ \E k \in 1..Len(initCall.responses) :
                 LET r == initCall.responses[k]
                 IN  r.kind = "network_error" \/ ~r.ok \/ ~r.json))
         => initCall.warnings # <<>>
    /\ inv.pc = "idle" =>
         /\ ENABLED (\E p \in EmbeddingParams : InvokeTextEmbedding(p))
         /\ ENABLED (\E h \in {"TEXT_SMALL", "TEXT_LARGE"}, p \in TextParams :
                       InvokeText(h, p))
         /\ ENABLED (\E h \in {"OBJECT_SMALL", "OBJECT_LARGE"}, p \in TextParams :
                       InvokeObject(h, p))
         /\ ENABLED (\E p \in ImageParams : InvokeImage(p))
         /\ ENABLED (\E p \in ImageDescriptionParams : InvokeImageDescription(p))
         /\ ENABLED (\E a \in AudioBuffers : InvokeTranscription(a))
         /\ ENABLED (\E t \in SpeechTexts : InvokeTextToSpeech(t))

\* C12's case: init has returned, its /models request is still unanswered,
\* and a handler called meanwhile has already returned its result.
C12_Witness ==
  /\ initCall.pc = "validating"
  /\ initCall.promise = "resolved"
  /\ initCall.responses = <<>>
  /\ inv.handler = "IMAGE"
  /\ inv.pc = "returned"

\* The name a chain of two keys resolves to: the first key from the runtime
\* or the environment, else the second key likewise, else the default.
ChainOf(prefixed, plain, default) ==
  IF Resolved(prefixed) # Undefined THEN Resolved(prefixed)
  ELSE IF Resolved(plain) # Undefined THEN Resolved(plain)
  ELSE default

\* C13: the small model name is ELIZAOS_SMALL_MODEL, else SMALL_MODEL, else
\* 'gpt-4o', and the large one ELIZAOS_LARGE_MODEL, else LARGE_MODEL, else
\* 'gpt-5-mini', each key read from the runtime before the environment; the
\* prefixed key from either source wins over the unprefixed key from either
\* source; the name is never undefined or null, and it is the model the text
\* handler of that size sends upstream.
C13_ModelNameChain ==
  /\ getSmallModel = ChainOf("ELIZAOS_SMALL_MODEL", "SMALL_MODEL", "gpt-4o")
  /\ getLargeModel = ChainOf("ELIZAOS_LARGE_MODEL", "LARGE_MODEL", "gpt-5-mini")
  /\ ~Nullish(getSmallModel) /\ ~Nullish(getLargeModel)
  /\ \A k \in 1..Len(inv.requests) :
       /\ inv.handler = "TEXT_SMALL" =>
            inv.requests[k].model =
              ChainOf("ELIZAOS_SMALL_MODEL", "SMALL_MODEL", "gpt-4o")
       /\ inv.handler = "TEXT_LARGE" =>
            inv.requests[k].model =
              ChainOf("ELIZAOS_LARGE_MODEL", "LARGE_MODEL", "gpt-5-mini")

\* C13's case: the prefixed key is set in the environment only, the
\* unprefixed key in the runtime, and the small text handler's request names
\* the prefixed key's model.
C13_Witness ==
  /\ rt["ELIZAOS_SMALL_MODEL"] = Undefined /\ env["ELIZAOS_SMALL_MODEL"] = "gpt-4"
  /\ rt["SMALL_MODEL"] = "gpt-3.5-turbo"
  /\ inv.handler = "TEXT_SMALL"
  /\ inv.pc = "awaiting"
  /\ inv.requests[1].model = "gpt-4"

\* The spellings of true: the string in any case, and the boolean, whose
\* string form is 'true'.
SpellsTrue(v) == v \in {"true", "TRUE", "True", TrueV}

\* C14: telemetry is opt-in: a text-generation request has telemetry enabled
\* exactly when ELIZAOS_EXPERIMENTAL_TELEMETRY resolves to 'true' in some
\* letter case; unset, or set to anything else, it is disabled.
C14_TelemetryOptIn ==
  (inv.handler \in {"TEXT_SMALL", "TEXT_LARGE"}) =>
    \A k \in 1..Len(inv.requests) :
      inv.requests[k].telemetry =
        IF SpellsTrue(Resolved("ELIZAOS_EXPERIMENTAL_TELEMETRY"))
        THEN "enabled" ELSE "disabled"

\* C14's case: the setting is unset and the request in flight has telemetry
\* disabled.
C14_Witness ==
  /\ Absent("ELIZAOS_EXPERIMENTAL_TELEMETRY")
  /\ inv.handler = "TEXT_LARGE"
  /\ inv.pc = "awaiting"
  /\ inv.requests[1].telemetry = "disabled"

\* C15: no handler invocation and no init call changes the settings
\* resolution context: across every step the runtime settings and the
\* environment are what they were, so every key resolves to the same value
\* after any sequence of calls, successful or failed, as before it.
C15_SettingsNeverMutated ==
  [][/\ rt' = rt
     /\ env' = env
     /\ \A k \in Keys : Resolved(k)' = Resolved(k)]_vars

\* C15's case: init has run and its key validation failed, and a handler
\* call made after it has returned a result from a successful request.
C15_Witness ==
  /\ initCall.pc = "done"
  /\ initCall.warnings # <<>>
  /\ initCall.responses # <<>>
  /\ inv.handler = "TEXT_EMBEDDING"
  /\ inv.pc = "returned"
  /\ inv.responses # <<>>
  /\ inv.result.rest = "data"

\* C16: for a model type (TEXT_SMALL or TEXT_LARGE) the model name the
\* tokenizer handlers pick their encoding by is the model name the text
\* handler of that type sends upstream, under every combination of runtime
\* settings and environment variables.  (Stated as claimed; the tokenizers
\* read the environment only.)
C16_TokenizerUsesGenerationModel ==
  (/\ tok.pc # "idle"
   /\ inv.handler \in {"TEXT_SMALL", "TEXT_LARGE"}
   /\ inv.requests # <<>>
   /\ ModelTypeOrLarge(tok.modelType) = inv.handler)
    => tok.modelName = inv.requests[1].model

\* C17: IMAGE_DESCRIPTION invoked with an object whose prompt is non-empty
\* and not the default analysis prompt returns the content of a successful
\* response as a raw string, while every failure of the same call (missing
\* API key, HTTP error, empty content, exception) returns a {title,
\* description} object; with no prompt or the default prompt a success is a
\* {title, description} object whose title is 'Image Analysis' when the
\* content has no title line.
C17_CustomPromptReturnsString ==
  (inv.handler = "IMAGE_DESCRIPTION" /\ Settled) =>
    LET p == inv.params
        custom == p.kind = "object"
                  /\ p.prompt \notin {Undefined, "", DefaultImagePrompt}
        success == /\ inv.responses # <<>>
                   /\ LastResponse.ok /\ LastResponse.json
                   /\ LastResponse.data \notin {Undefined, ""}
    IN  /\ inv.pc = "returned"
        /\ (custom /\ success) => inv.result = StringValue(LastResponse.data)
        /\ ~success =>
             /\ inv.result.type = "object"
             /\ inv.result.title = "Failed to analyze image"
        /\ (~custom /\ success) =>
             /\ inv.result.type = "object"
             /\ inv.result.title =
                  (IF LastResponse.data = TitledContent THEN "A cat"
                   ELSE "Image Analysis")

\* C17's case: a custom prompt and a successful response: the content came
\* back as a string.
C17_Witness ==
  /\ inv.handler = "IMAGE_DESCRIPTION"
  /\ inv.params.kind = "object"
  /\ inv.params.prompt = CustomImagePrompt
  /\ inv.pc = "returned"
  /\ inv.result = StringValue(PlainContent)

\* The configured ELIZAOS_EMBEDDING_DIMENSIONS (read as an integer; unset or
\* empty means 1536) is one of VECTOR_DIMS.
DimensionAllowed ==
  LET v == Resolved("ELIZAOS_EMBEDDING_DIMENSIONS")
  IN  v \in {Undefined, ""} \/ \E d \in VECTOR_DIMS : ParseInt(v) = Num(d)

\* C18: when the configured ELIZAOS_EMBEDDING_DIMENSIONS is not one of
\* VECTOR_DIMS, every TEXT_EMBEDDING call, the null-params initialization
\* call included, throws 'Invalid embedding dimension' whatever its input and
\* whether or not a key is configured, issues no request and returns no
\* vector.
C18_InvalidDimensionThrows ==
  (inv.handler = "TEXT_EMBEDDING" /\ ~DimensionAllowed) =>
    /\ inv.pc = "thrown"
    /\ inv.error.origin = "invalid_dimension"
    /\ inv.requests = <<>>
    /\ inv.result.type = "none"

\* C18's case: the dimension is configured as 999 and the initialization
\* call with null params threw.
C18_Witness ==
  /\ Resolved("ELIZAOS_EMBEDDING_DIMENSIONS") = "999"
  /\ inv.handler = "TEXT_EMBEDDING"
  /\ inv.params.kind = "null"
  /\ inv.pc = "thrown"
  /\ inv.error.origin = "invalid_dimension"

\* The params of a TEXT_EMBEDDING call carry no text to embed: null, no
\* usable text, or a text that is empty or all whitespace.
BlankInput(p) == p.kind = "null" \/ p.text \in {Undefined, "", "   "}

\* C19 as claimed: for null params, params without usable text and
\* whitespace-only text TEXT_EMBEDDING returns a sentinel vector and issues
\* no request, whether or not an API key is configured; the missing-key
\* error is raised only for calls with non-blank text.
C19_BlankInputReturnsSentinel ==
  (inv.handler = "TEXT_EMBEDDING" /\ Started) =>
    /\ BlankInput(inv.params) =>
         /\ inv.pc = "returned"
         /\ inv.result.rest = "zeros" /\ inv.result.first \in {1, 2, 3}
         /\ inv.requests = <<>>
    /\ (inv.pc = "thrown" /\ inv.error.origin = "missing_key")
         => ~BlankInput(inv.params)

\* C19 amended: the same, for a configured dimension that is one of
\* VECTOR_DIMS; with any other dimension the call throws the dimension error
\* whatever its input.
C19_BlankInputSentinelValidDimension ==
  (inv.handler = "TEXT_EMBEDDING" /\ Started) =>
    /\ (BlankInput(inv.params) /\ DimensionAllowed) =>
         /\ inv.pc = "returned"
         /\ inv.result.rest = "zeros" /\ inv.result.first \in {1, 2, 3}
         /\ inv.requests = <<>>
    /\ (BlankInput(inv.params) /\ ~DimensionAllowed) =>
         /\ inv.pc = "thrown" /\ inv.error.origin = "invalid_dimension"
         /\ inv.requests = <<>>
    /\ (inv.pc = "thrown" /\ inv.error.origin = "missing_key")
         => ~BlankInput(inv.params)

\* C19's case: no key of any kind is configured and a whitespace-only text
\* got the 0.3 sentinel without a request.
C19_Witness ==
  /\ NoApiKey("TEXT_EMBEDDING")
  /\ DimensionAllowed
  /\ inv.handler = "TEXT_EMBEDDING"
  /\ inv.params.text = "   "
  /\ inv.pc = "returned"
  /\ inv.result.first = 3
  /\ inv.requests = <<>>

\* The path a returned TEXT_EMBEDDING call took, read off its params and its
\* response: 1 null params, 2 invalid input format, 3 empty text, 4
\* non-success status, 5 invalid response structure, 6 caught exception, 0
\* success.
EmbeddingPath(i) ==
  IF i.responses = <<>>
  THEN IF i.params.kind = "null" THEN 1
       ELSE IF i.params.kind = "object" /\ i.params.text \in {Undefined, ""} THEN 2
       ELSE 3
  ELSE LET r == i.responses[Len(i.responses)]
       IN  IF r.kind = "network_error" THEN 6
           ELSE IF ~r.ok THEN 4
           ELSE IF ~r.json THEN 6
           ELSE IF r.data = Undefined THEN 5
           ELSE 0

\* C20: every sentinel vector TEXT_EMBEDDING returns is all zeros but for its
\* first element, and the first element names the path: 0.1 null params, 0.2
\* invalid input format, 0.3 empty text, 0.4 non-success HTTP status, 0.5
\* invalid response structure, 0.6 caught exception; no two paths share a
\* sentinel, and a successful call returns the upstream data, not a sentinel.
C20_SentinelNamesPath ==
  (inv.handler = "TEXT_EMBEDDING" /\ inv.pc = "returned") =>
    IF EmbeddingPath(inv) = 0
    THEN inv.result.rest = "data"
    ELSE /\ inv.result.rest = "zeros"
         /\ inv.result.first = EmbeddingPath(inv)
         /\ inv.result.length = inv.dimension

\* C20's case: a 200 response without data[0].embedding, answered with the
\* 0.5 sentinel.
C20_Witness ==
  /\ inv.handler = "TEXT_EMBEDDING"
  /\ inv.pc = "returned"
  /\ inv.responses # <<>>
  /\ LastResponse.ok /\ LastResponse.json /\ LastResponse.data = Undefined
  /\ inv.result = SentinelVector(inv.dimension, 5)

\* C21: when the text an object handler (OBJECT_SMALL, OBJECT_LARGE) got from
\* the model is not JSON, the handler returns the parse of the text with its
\* markdown code fences stripped if that is valid JSON, and otherwise throws
\* the parse error it caught; any other error is thrown on as it came; a
\* returned value is always the parse of the model's text or of its cleaned
\* text, and no request follows the response that settled the call.
C21_ObjectJsonRepair ==
  (inv.handler \in {"OBJECT_SMALL", "OBJECT_LARGE"} /\ Settled
   /\ inv.responses # <<>>) =>
    LET r == LastResponse
        text == r.data
        gotText == r.kind = "http" /\ r.ok /\ r.json /\ text # Undefined
    IN  /\ Len(inv.requests) = Len(inv.responses)
        /\ inv.pc = "returned" =>
             /\ gotText
             /\ inv.result = DataValue("json")
             /\ text \in {"json", "fenced-json"}
        /\ (gotText /\ text = "json") =>
             inv.pc = "returned" /\ inv.result = DataValue("json")
        /\ (gotText /\ text = "fenced-json") =>
             inv.pc = "returned" /\ inv.result = DataValue("json")
        /\ (gotText /\ text = "garbage") =>
             /\ inv.pc = "thrown"
             /\ inv.error.origin \in {"json_parse", "no_object_generated"}
        /\ ~gotText =>
             /\ inv.pc = "thrown"
             /\ inv.error.origin \in
                  {"sdk_api_call", "sdk_retries_exhausted", "sdk_invalid_response"}

\* C21's case: the model answered with JSON inside a code fence, the parse
\* error reached the handler (no usage event was emitted), and the handler
\* returned the parse of the cleaned text.
C21_Witness ==
  /\ inv.handler = "OBJECT_SMALL"
  /\ inv.pc = "returned"
  /\ LastResponse.data = "fenced-json"
  /\ inv.events = <<>>
  /\ inv.result = DataValue("json")

RECURSIVE Alone(_, _, _)
\* The call of handler h with params p as it stands when it is the only call
\* there is and the upstream API has answered its requests with responses.
Alone(h, p, responses) ==
  IF responses = <<>> THEN StartOf(h, p)
  ELSE OnResponseOf(Alone(h, p, SubSeq(responses, 1, Len(responses) - 1)),
                    responses[Len(responses)])

\* C22: calls in flight together are independent: whatever the other callers
\* have invoked, received or finished, and in whatever order, each call's
\* requests, result, thrown error and usage events are those the same
\* handler would produce alone from the same params, the same settings and
\* the responses to its own requests.
C22_CallsIndependent ==
  \A s \in Callers :
    LET c == calls[s]
    IN  c.call.pc # "idle" =>
          /\ c.call = Alone(c.call.handler, c.call.params, c.answered)
          /\ c.call.responses = c.answered

\* C22's case: two calls of different model types were in flight together,
\* the second caller's was answered and has returned while the first
\* caller's still waits for its response.
C22_Witness ==
  /\ calls[1].call.pc = "awaiting"
  /\ calls[1].call.handler = "TEXT_SMALL"
  /\ calls[1].answered = <<NetworkError>>
  /\ calls[2].call.pc = "returned"
  /\ calls[2].call.handler = "TEXT_EMBEDDING"
  /\ calls[2].answered = <<SuccessFor("TEXT_EMBEDDING")>>
  /\ calls[2].call.events # <<>>

====
